---- MODULE Spec2Model ----
(***************************************************************************)
(* Model of reflex/components/datadisplay/table.py: the create             *)
(* classmethods of Table, Thead, Tbody, Tfoot and Tr and the shape         *)
(* validators validate_headers, validate_rows and validate_footers.        *)
(*                                                                         *)
(* Every Python value is a record [kind, name, items]:                     *)
(*   None, int, str          kind "None" / "int" / "str", name = literal   *)
(*   list, tuple             kind "list" / "tuple", items = elements       *)
(*   instance of a list      kind "sublist", items = elements              *)
(*   subclass                                                              *)
(*   a class (list, str..)   kind "class", name = class name               *)
(*   a typing alias          kind "alias", name = origin, items = __args__ *)
(*   Var                     kind "Var", items = <<type_>>                 *)
(*   component node          kind "Component", name = tag, items = children*)
(*   Foreach node            kind "Foreach", name = render_fn,             *)
(*                           items = <<iterable>>                          *)
(*   raised exception        kind "raise", name = message                  *)
(***************************************************************************)
EXTENDS Integers, Sequences, FiniteSets

VARIABLES op, children, caption, headers, rows, footers, cell_type, cells, result

vars == <<op, children, caption, headers, rows, footers, cell_type, cells, result>>

(* ---------------------------- bounds ----------------------------------- *)
MaxCells == 2
MaxRows == 2
MaxChildren == 2

(* ------------------------- Python values ------------------------------- *)
Val(k, n, its) == [kind |-> k, name |-> n, items |-> its]

None == Val("None", "", <<>>)

PyInt(n) == Val("int", n, <<>>)

PyStr(s) == Val("str", s, <<>>)

PyStrOf(s, chars) == Val("str", s, chars)

PyList(its) == Val("list", "", its)

PyTuple(its) == Val("tuple", "", its)

SubList(its) == Val("sublist", "", its)

Class(n) == Val("class", n, <<>>)

Alias(origin, args) == Val("alias", origin, args)

Var(type_) == Val("Var", "", <<type_>>)

Raise(msg) == Val("raise", msg, <<>>)

IsRaise(v) == v.kind = "raise"

HeadersMsg == "TypeError: table headers should be a list or tuple"

RowsMsg == "TypeError: table rows should be a list or tuple containing inner lists or tuples."

RowsVarMsg == "TypeError: table rows should be a list or tuple containing inner lists or tuples. Got type instead"

NotIterableMsg == "TypeError: object is not iterable"

(* --------------------- Python built-in semantics ----------------------- *)
\* isinstance(v, Var)
IsVar(v) == v.kind = "Var"

\* isinstance(v, (list, tuple)): true of subclasses too
IsListOrTuple(v) == v.kind \in {"list", "tuple", "sublist"}

\* type(v)
TypeOf(v) == Class(IF v.kind = "None" THEN "NoneType"
                   ELSE IF v.kind = "Component" THEN v.name
                   ELSE v.kind)

\* bool(v) is False
Falsy(v) ==
    \/ v.kind = "None"
    \/ v.kind = "int" /\ v.name = "0"
    \/ v.kind = "str" /\ v.name = ""
    \/ IsListOrTuple(v) /\ v.items = <<>>

\* the elements "for x in v or []" visits, or the TypeError it raises
IterOrEmpty(v) ==
    IF Falsy(v) THEN PyList(<<>>)
    ELSE IF IsListOrTuple(v) THEN PyList(v.items)
    ELSE IF v.kind = "str"
         THEN PyList(IF v.items = <<>> THEN <<v>> ELSE v.items)
    ELSE Raise(NotIterableMsg)

\* a list comprehension: the built list, or the first exception an element raised
Raised(seq) == {i \in DOMAIN seq : IsRaise(seq[i])}

Comprehension(seq) ==
    IF Raised(seq) = {} THEN PyList(seq)
    ELSE seq[CHOOSE i \in Raised(seq) : \A j \in Raised(seq) : i <= j]

\* types.get_base_class(cls): the origin of a generic alias, else the class
get_base_class(t) == IF t.kind = "alias" THEN Class(t.name) ELSE t

\* issubclass(cls, (List, Tuple))
IsSubclassListTuple(c) == c.kind = "class" /\ c.name \in {"list", "tuple", "sublist"}

(* ------------------------ component base class ------------------------- *)
\* Component.create(*children): a node holding a tag and its children
Component_create(tag, ch) == Val("Component", tag, ch)

\* Foreach.create(iterable, render_fn)
Foreach_create(iterable, render_fn) == Val("Foreach", render_fn, <<iterable>>)

(* ------------------------------- Tr ------------------------------------ *)
\* types = {"header": Th, "data": Td}; types.get(cell_type)
CellCls(ct) == IF ct = "header" THEN "Th" ELSE IF ct = "data" THEN "Td" ELSE ""

Tr_create(ch, ct, cs) ==
    LET cell_cls == CellCls(ct)
        it == IterOrEmpty(cs)
        built == IF Len(ch) = 0 /\ cell_cls # ""
                 THEN IF IsVar(cs)
                      THEN PyList(<<Foreach_create(cs, cell_cls)>>)
                      ELSE IF IsRaise(it) THEN it
                      ELSE PyList([i \in DOMAIN it.items |->
                                     Component_create(cell_cls, <<it.items[i]>>)])
                 ELSE PyList(ch)
    IN  IF IsRaise(built) THEN built ELSE Component_create("Tr", built.items)

(* ------------------------------ Thead ---------------------------------- *)
Thead_validate_headers(h) ==
    IF \/ IsVar(h) /\ get_base_class(h.items[1]) \notin {Class("list"), Class("tuple")}
       \/ ~IsVar(h) /\ get_base_class(TypeOf(h)) \notin {Class("list"), Class("tuple")}
    THEN Raise(HeadersMsg)
    ELSE None

\* mutant: the headers are validated before the explicit children are looked at
Thead_create_validate_first(ch, h) ==
    LET v == Thead_validate_headers(h)
        tr == Tr_create(<<>>, "header", h)
    IN  IF IsRaise(v) THEN v
        ELSE IF Len(ch) = 0
             THEN IF IsRaise(tr) THEN tr ELSE Component_create("Thead", <<tr>>)
        ELSE Component_create("Thead", ch)

\* mutant: one row per header instead of one row of all headers
Thead_create_row_per_header(ch, h) ==
    IF Len(ch) = 0
    THEN LET v == Thead_validate_headers(h)
             it == IterOrEmpty(h)
         IN  IF IsRaise(v) THEN v
             ELSE IF IsVar(h)
                  THEN Component_create("Thead", <<Tr_create(<<>>, "header", h)>>)
             ELSE Component_create("Thead",
                      [i \in DOMAIN it.items |->
                          Tr_create(<<>>, "header", PyList(<<it.items[i]>>))])
    ELSE Component_create("Thead", ch)

Thead_create(ch, h) ==
    IF Len(ch) = 0
    THEN LET v == Thead_validate_headers(h)
             tr == Tr_create(<<>>, "header", h)
         IN  IF IsRaise(v) THEN v
             ELSE IF IsRaise(tr) THEN tr
             ELSE Component_create("Thead", <<tr>>)
    ELSE Component_create("Thead", ch)

(* ------------------------------ Tbody ---------------------------------- *)
Tbody_validate_rows(r) ==
    IF IsVar(r)
    THEN LET outer_type == r.items[1]
             has_args == outer_type.kind = "alias"
             inner_type == IF has_args THEN outer_type.items[1] ELSE None
         IN  IF ~ ( /\ IsSubclassListTuple(get_base_class(outer_type))
                    /\ \/ ~has_args
                       \/ IsSubclassListTuple(get_base_class(inner_type)) )
             THEN Raise(RowsVarMsg)
             ELSE None
    ELSE IF ~ ( /\ IsListOrTuple(r)
                /\ \/ Falsy(r)
                   \/ IsListOrTuple(r.items[1]) )
         THEN Raise(RowsMsg)
         ELSE None

\* mutant: no Var branch, rows are always iterated
Tbody_create_static_only(ch, r) ==
    IF Len(ch) = 0
    THEN LET v == Tbody_validate_rows(r)
             it == IterOrEmpty(r)
             built == IF IsRaise(it) THEN it
                      ELSE Comprehension([i \in DOMAIN it.items |->
                                            Tr_create(<<>>, "data", it.items[i])])
         IN  IF IsRaise(v) THEN v
             ELSE IF IsRaise(built) THEN built
             ELSE Component_create("Tbody", built.items)
    ELSE Component_create("Tbody", ch)

\* mutant: each row becomes a Td directly under the body, without a Tr
Tbody_create_cells_direct(ch, r) ==
    IF Len(ch) = 0
    THEN LET v == Tbody_validate_rows(r)
             it == IterOrEmpty(r)
             built == IF IsVar(r)
                      THEN PyList(<<Foreach_create(r, "Tr.data")>>)
                      ELSE IF IsRaise(it) THEN it
                      ELSE PyList([i \in DOMAIN it.items |->
                                     Component_create("Td", <<it.items[i]>>)])
         IN  IF IsRaise(v) THEN v
             ELSE IF IsRaise(built) THEN built
             ELSE Component_create("Tbody", built.items)
    ELSE Component_create("Tbody", ch)

Tbody_create(ch, r) ==
    IF Len(ch) = 0
    THEN LET v == Tbody_validate_rows(r)
             it == IterOrEmpty(r)
             built == IF IsVar(r)
                      THEN PyList(<<Foreach_create(r, "Tr.data")>>)
                      ELSE IF IsRaise(it) THEN it
                      ELSE Comprehension([i \in DOMAIN it.items |->
                                            Tr_create(<<>>, "data", it.items[i])])
         IN  IF IsRaise(v) THEN v
             ELSE IF IsRaise(built) THEN built
             ELSE Component_create("Tbody", built.items)
    ELSE Component_create("Tbody", ch)

(* ------------------------------ Tfoot ---------------------------------- *)
\* mutant: isinstance in place of the base-class test, Var not looked into
Tfoot_validate_footers_isinstance(f) ==
    IF ~IsVar(f) /\ ~IsListOrTuple(f)
    THEN Raise(HeadersMsg)
    ELSE None

Tfoot_validate_footers(f) ==
    IF \/ IsVar(f) /\ get_base_class(f.items[1]) \notin {Class("list"), Class("tuple")}
       \/ ~IsVar(f) /\ get_base_class(TypeOf(f)) \notin {Class("list"), Class("tuple")}
    THEN Raise(HeadersMsg)
    ELSE None

\* mutant: the footer row is built of data cells
Tfoot_create_data_cells(ch, f) ==
    IF Len(ch) = 0
    THEN LET v == Tfoot_validate_footers(f)
             tr == Tr_create(<<>>, "data", f)
         IN  IF IsRaise(v) THEN v
             ELSE IF IsRaise(tr) THEN tr
             ELSE Component_create("Tfoot", <<tr>>)
    ELSE Component_create("Tfoot", ch)

Tfoot_create(ch, f) ==
    IF Len(ch) = 0
    THEN LET v == Tfoot_validate_footers(f)
             tr == Tr_create(<<>>, "header", f)
         IN  IF IsRaise(v) THEN v
             ELSE IF IsRaise(tr) THEN tr
             ELSE Component_create("Tfoot", <<tr>>)
    ELSE Component_create("Tfoot", ch)

(* ------------------------------ Table ---------------------------------- *)
\* children.append(x): an exception raised while building x, or before, propagates
Append_or_raise(acc, x) ==
    IF IsRaise(acc) THEN acc
    ELSE IF IsRaise(x) THEN x
    ELSE PyList(Append(acc.items, x))

\* mutant: the body is appended before the head
Table_create_body_first(ch, cap, h, r, f) ==
    IF Len(ch) = 0
    THEN LET c0 == PyList(<<>>)
             c1 == IF cap # None
                   THEN Append_or_raise(c0, Component_create("TableCaption", <<cap>>))
                   ELSE c0
             c2 == IF ~IsRaise(c1) /\ r # None
                   THEN Append_or_raise(c1, Tbody_create(<<>>, r))
                   ELSE c1
             c3 == IF ~IsRaise(c2) /\ h # None
                   THEN Append_or_raise(c2, Thead_create(<<>>, h))
                   ELSE c2
             c4 == IF ~IsRaise(c3) /\ f # None
                   THEN Append_or_raise(c3, Tfoot_create(<<>>, f))
                   ELSE c3
         IN  IF IsRaise(c4) THEN c4 ELSE Component_create("Table", c4.items)
    ELSE Component_create("Table", ch)

Table_create(ch, cap, h, r, f) ==
    IF Len(ch) = 0
    THEN LET c0 == PyList(<<>>)
             c1 == IF cap # None
                   THEN Append_or_raise(c0, Component_create("TableCaption", <<cap>>))
                   ELSE c0
             c2 == IF ~IsRaise(c1) /\ h # None
                   THEN Append_or_raise(c1, Thead_create(<<>>, h))
                   ELSE c1
             c3 == IF ~IsRaise(c2) /\ r # None
                   THEN Append_or_raise(c2, Tbody_create(<<>>, r))
                   ELSE c2
             c4 == IF ~IsRaise(c3) /\ f # None
                   THEN Append_or_raise(c3, Tfoot_create(<<>>, f))
                   ELSE c3
         IN  IF IsRaise(c4) THEN c4 ELSE Component_create("Table", c4.items)
    ELSE Component_create("Table", ch)

(* --------------------------- input domains ----------------------------- *)
SeqsUpTo(S, n) == UNION {[1..k -> S] : k \in 0..n}

CellVals == {PyStr("a"), PyInt("5"), Component_create("Text", <<>>), Component_create("Th", <<>>)}

Scalars == {None, PyInt("0"), PyInt("5"), PyStr(""), PyStr("a"), PyStrOf("ab", <<PyStr("a"), PyStr("b")>>)}

VarTypes ==
    {Class("list"), Class("tuple"), Class("str"), Class("int"), Class("sublist"),
     Alias("list", <<Class("str")>>), Alias("tuple", <<Class("str")>>),
     Alias("list", <<Alias("list", <<Class("str")>>)>>),
     Alias("tuple", <<Alias("tuple", <<Class("str")>>)>>),
     Alias("dict", <<Class("str"), Class("int")>>)}

VarVals == {Var(t) : t \in VarTypes}

CellsVals ==
    {Val(k, "", s) : k \in {"list", "tuple", "sublist"}, s \in SeqsUpTo(CellVals, MaxCells)}
    \cup Scalars \cup VarVals

RowVals ==
    {PyList(<<>>), PyList(<<PyStr("a")>>), PyTuple(<<PyStr("a"), PyInt("5")>>),
     PyList(<<Component_create("Th", <<>>)>>), SubList(<<PyStr("a")>>),
     None, PyInt("5"), PyStrOf("ab", <<PyStr("a"), PyStr("b")>>)}

RowsVals ==
    {Val(k, "", s) : k \in {"list", "tuple", "sublist"}, s \in SeqsUpTo(RowVals, MaxRows)}
    \cup Scalars \cup VarVals

ChildNodes == {Component_create("Tr", <<>>), Component_create("Text", <<>>)}

ChildrenVals == SeqsUpTo(ChildNodes, MaxChildren)

CellTypes == {"", "header", "data", "footer"}

TableHeaders ==
    {None, PyList(<<>>), PyList(<<PyStr("a"), PyInt("5")>>), PyStr("a"),
     Var(Alias("list", <<Class("str")>>)), Var(Class("str"))}

TableRows ==
    {None, PyList(<<>>), PyList(<<PyList(<<PyStr("a")>>)>>),
     PyList(<<PyList(<<PyStr("a")>>), PyInt("5")>>),
     PyList(<<PyList(<<PyStr("a")>>), PyStr("a")>>), PyInt("5"),
     Var(Alias("list", <<Alias("list", <<Class("str")>>)>>)),
     Var(Alias("list", <<Class("int")>>))}

TableFooters ==
    {None, PyTuple(<<PyStr("a")>>), PyList(<<Component_create("Th", <<>>)>>),
     PyInt("0"), Var(Class("tuple"))}

(* ---------------------------- state machine ---------------------------- *)
NoCall == Val("nocall", "", <<>>)

InitTr ==
    /\ children \in ChildrenVals
    /\ cell_type \in CellTypes
    /\ cells \in CellsVals
    /\ caption = None /\ headers = None /\ rows = None /\ footers = None

InitThead ==
    /\ children \in ChildrenVals
    /\ headers \in CellsVals
    /\ cell_type = "" /\ cells = None
    /\ caption = None /\ rows = None /\ footers = None

InitTfoot ==
    /\ children \in ChildrenVals
    /\ footers \in CellsVals
    /\ cell_type = "" /\ cells = None
    /\ caption = None /\ rows = None /\ headers = None

InitTbody ==
    /\ children \in ChildrenVals
    /\ rows \in RowsVals
    /\ cell_type = "" /\ cells = None
    /\ caption = None /\ headers = None /\ footers = None

InitTable ==
    /\ children \in SeqsUpTo({Component_create("Tr", <<>>)}, 1)
    /\ caption \in {None, PyStr("a")}
    /\ headers \in TableHeaders
    /\ rows \in TableRows
    /\ footers \in TableFooters
    /\ cell_type = "" /\ cells = None

Init ==
    /\ op = "none"
    /\ result = NoCall
    /\ \/ InitTr
       \/ InitThead
       \/ InitTfoot
       \/ InitTbody
       \/ InitTable

inputs == <<children, caption, headers, rows, footers, cell_type, cells>>

TableCreate ==
    /\ op' = "Table"
    /\ result' = Table_create(children, caption, headers, rows, footers)
    /\ UNCHANGED inputs

TheadCreate ==
    /\ op' = "Thead"
    /\ result' = Thead_create(children, headers)
    /\ UNCHANGED inputs

TbodyCreate ==
    /\ op' = "Tbody"
    /\ result' = Tbody_create(children, rows)
    /\ UNCHANGED inputs

TfootCreate ==
    /\ op' = "Tfoot"
    /\ result' = Tfoot_create(children, footers)
    /\ UNCHANGED inputs

TrCreate ==
    /\ op' = "Tr"
    /\ result' = Tr_create(children, cell_type, cells)
    /\ UNCHANGED inputs

Next ==
    \/ TableCreate
    \/ TheadCreate
    \/ TbodyCreate
    \/ TfootCreate
    \/ TrCreate

Spec == Init /\ [][Next]_vars

TypeOK ==
    /\ op \in {"none", "Table", "Thead", "Tbody", "Tfoot", "Tr"}
    /\ result.kind \in {"nocall", "raise", "Component"}

(* --------------------- disallowed-children lists ----------------------- *)
\* invalid_children of each node type; a type that declares none allows all
InvalidChildren(tag) ==
    CASE tag = "Thead" -> {"Tbody", "Thead", "Tfoot"}
      [] tag = "Tbody" -> {"Tbody", "Thead", "Tfoot", "Td", "Th"}
      [] tag = "Tfoot" -> {"Tbody", "Thead", "Td", "Th", "Tfoot"}
      [] tag = "Tr" -> {"Tbody", "Thead", "Tfoot", "Tr"}
      [] tag = "Th" -> {"Tbody", "Thead", "Tr", "Td", "Th"}
      [] tag = "Td" -> {"Tbody", "Thead"}
      [] OTHER -> {}

(* ------------------------ vocabulary of the claims --------------------- *)
Ops == {"Table", "Thead", "Tbody", "Tfoot", "Tr"}

Node(tag, ch) == [kind |-> "Component", name |-> tag, items |-> ch]

IsNode(v) == v.kind = "Component"

\* the tag a parent sees for a child: a component's tag, "Foreach", or none
ChildTag(v) ==
    IF v.kind = "Component" THEN v.name
    ELSE IF v.kind = "Foreach" THEN "Foreach"
    ELSE ""

PlainSeq(v) == v.kind \in {"list", "tuple"}

AnySeq(v) == v.kind \in {"list", "tuple", "sublist"}

\* list/tuple-like: a list or tuple, or a Var declared as one
ListTupleLike(v) ==
    IF v.kind = "Var"
    THEN v.items[1].kind \in {"class", "alias"} /\ v.items[1].name \in {"list", "tuple"}
    ELSE PlainSeq(v)

\* every child of row tr is a cell of class cls, or a Foreach rendering that class
AllCells(tr, cls) ==
    \A i \in DOMAIN tr.items :
        \/ tr.items[i].kind = "Component" /\ tr.items[i].name = cls
        \/ tr.items[i].kind = "Foreach" /\ tr.items[i].name = cls

CellNodes(cls, seq) == [i \in DOMAIN seq |-> Node(cls, <<seq[i]>>)]

(* ------------------------------- C1 ------------------------------------ *)
\* C1: with at least one explicit child, every create returns a node of its
\* own tag whose children are exactly the passed children in order; nothing
\* is inferred and nothing is validated, so it never raises.
C1_ExplicitChildrenBypass ==
    (op \in Ops /\ Len(children) > 0) => result = Node(op, children)

C1_Witness ==
    /\ op = "Thead"
    /\ Len(children) = 2
    /\ headers = PyInt("5")
    /\ IsNode(result)

(* ------------------------------- C2 ------------------------------------ *)
\* C2: Thead.create with no children and a non-reactive list or tuple of n
\* headers returns a Thead with exactly one child, a Tr whose children are
\* the n Th cells, the i-th built from the i-th header.
C2_OneHeaderRow ==
    (op = "Thead" /\ children = <<>> /\ PlainSeq(headers)) =>
        result = Node("Thead", <<Node("Tr", CellNodes("Th", headers.items))>>)

C2_Witness ==
    /\ op = "Thead"
    /\ children = <<>>
    /\ headers = PyTuple(<<PyStr("a"), PyInt("5")>>)
    /\ IsNode(result)

WellFormedRows(r) == AnySeq(r) /\ \A i \in DOMAIN r.items : AnySeq(r.items[i])

\* C4: Tbody.create with no children and non-reactive rows raises the
\* validation TypeError whenever rows is not a list/tuple, or any element of
\* rows at any position is not a list/tuple.
C4_RowsValidatedAtEveryPosition ==
    (op = "Tbody" /\ children = <<>> /\ ~IsVar(rows) /\ ~WellFormedRows(rows)) =>
        result = Raise(RowsMsg)

(* ------------------------------- C5 ------------------------------------ *)
\* C5: Tr.create with no children makes Th cells for "header", Td cells for
\* "data" and no cells for any other cell_type; so the rows of Thead and
\* Tfoot hold only Th cells and the rows of Tbody only Td cells.
C5_CellTypeSelection ==
    /\ (op = "Tr" /\ children = <<>> /\ cell_type = "header" /\ IsNode(result)) =>
          AllCells(result, "Th")
    /\ (op = "Tr" /\ children = <<>> /\ cell_type = "data" /\ IsNode(result)) =>
          AllCells(result, "Td")
    /\ (op = "Tr" /\ children = <<>> /\ cell_type \notin {"header", "data"}) =>
          result = Node("Tr", <<>>)
    /\ (op \in {"Thead", "Tfoot"} /\ children = <<>> /\ IsNode(result)) =>
          \A i \in DOMAIN result.items :
              /\ result.items[i].name = "Tr"
              /\ AllCells(result.items[i], "Th")
    /\ (op = "Tbody" /\ children = <<>> /\ IsNode(result)) =>
          \A i \in DOMAIN result.items :
              \/ result.items[i] = Val("Foreach", "Tr.data", <<rows>>)
              \/ /\ result.items[i].kind = "Component"
                 /\ result.items[i].name = "Tr"
                 /\ AllCells(result.items[i], "Td")

C5_Witness ==
    /\ op = "Tfoot"
    /\ children = <<>>
    /\ PlainSeq(footers) /\ Len(footers.items) = 2
    /\ IsNode(result)
    /\ Len(result.items[1].items) = 2

(* ------------------------------- C6 ------------------------------------ *)
\* C6: every failure of a construction call on the inference path is the
\* shape-validation error of validate_headers, validate_rows or
\* validate_footers; an input that passes validation cannot fail later.
C6_OnlyValidationErrors ==
    (op \in {"Table", "Thead", "Tbody", "Tfoot"} /\ children = <<>> /\ IsRaise(result)) =>
        result.name \in {HeadersMsg, RowsMsg, RowsVarMsg}

(* ------------------------------- C7 ------------------------------------ *)
ExpectedSections ==
    (IF caption # None THEN <<"TableCaption">> ELSE <<>>)
    \o (IF headers # None THEN <<"Thead">> ELSE <<>>)
    \o (IF rows # None THEN <<"Tbody">> ELSE <<>>)
    \o (IF footers # None THEN <<"Tfoot">> ELSE <<>>)

\* C7: Table.create with no children builds exactly the sections whose
\* argument is not None, in the order caption, head, body, foot, each once;
\* a None section is neither built nor validated.
C7_TableSections ==
    (op = "Table" /\ children = <<>>) =>
        /\ IsNode(result) =>
              /\ result.name = "Table"
              /\ [i \in DOMAIN result.items |-> ChildTag(result.items[i])] = ExpectedSections
        /\ (headers = None /\ rows = None /\ footers = None) => IsNode(result)
        /\ (caption = None /\ headers = None /\ rows = None /\ footers = None) =>
              result = Node("Table", <<>>)

C7_Witness ==
    /\ op = "Table"
    /\ children = <<>>
    /\ caption # None /\ headers = None /\ rows # None /\ footers # None
    /\ IsNode(result)
    /\ Len(result.items) = 3

(* ------------------------------- C8 ------------------------------------ *)
\* a Var declared as a list/tuple whose element type, when given, is one too
RowsVarLike(v) ==
    LET t == v.items[1]
    IN  /\ t.name \in {"list", "tuple", "sublist"}
        /\ t.kind = "alias" => t.items[1].name \in {"list", "tuple", "sublist"}

\* C8: a Var input gives exactly one Foreach child, a non-reactive sequence
\* of n elements gives n children in input order: Tbody over rows (Tr rows
\* of "data" cells), Tr over cells (cells of the selected class); None or an
\* empty sequence gives none.
C8_StaticOrDynamic ==
    /\ (op = "Tbody" /\ children = <<>> /\ IsVar(rows)) =>
          /\ RowsVarLike(rows) => result = Node("Tbody", <<Val("Foreach", "Tr.data", <<rows>>)>>)
          /\ IsNode(result) => result = Node("Tbody", <<Val("Foreach", "Tr.data", <<rows>>)>>)
    /\ (op = "Tbody" /\ children = <<>> /\ ~IsVar(rows)) =>
          /\ WellFormedRows(rows) =>
                result = Node("Tbody", [i \in DOMAIN rows.items |->
                                           Node("Tr", CellNodes("Td", rows.items[i].items))])
          /\ IsNode(result) =>
                /\ AnySeq(rows)
                /\ Len(result.items) = Len(rows.items)
                /\ \A i \in DOMAIN result.items : result.items[i].name = "Tr"
    /\ (op = "Tr" /\ children = <<>> /\ cell_type \in {"header", "data"}) =>
          LET cls == IF cell_type = "header" THEN "Th" ELSE "Td"
          IN  /\ IsVar(cells) => result = Node("Tr", <<Val("Foreach", cls, <<cells>>)>>)
              /\ AnySeq(cells) => result = Node("Tr", CellNodes(cls, cells.items))
              /\ cells = None => result = Node("Tr", <<>>)

C8_Witness ==
    /\ op = "Tbody"
    /\ children = <<>>
    /\ IsVar(rows)
    /\ IsNode(result)

(* ------------------------------- C9 ------------------------------------ *)
RECURSIVE NestingValid(_)
NestingValid(n) ==
    IsNode(n) =>
        \A i \in DOMAIN n.items :
            /\ ChildTag(n.items[i]) \notin InvalidChildren(n.name)
            /\ NestingValid(n.items[i])

Generated == {"Table", "Thead", "Tbody", "Tfoot", "Tr"}

RECURSIVE GeneratedNestingValid(_)
GeneratedNestingValid(n) ==
    (IsNode(n) /\ n.name \in Generated) =>
        \A i \in DOMAIN n.items :
            /\ ChildTag(n.items[i]) \notin InvalidChildren(n.name)
            /\ GeneratedNestingValid(n.items[i])

====
